---- MODULE Spec2Model ----
(***************************************************************************)
(* ChatRelayBot (src/main.go): the WorkerPool (a buffered channel of task  *)
(* closures drained by a fixed set of worker goroutines), processTask      *)
(* (backend request with retry, then the response relayed to the sink) and *)
(* the dispatchers processMention and processDirectMessage.                *)
(*                                                                         *)
(* Spec         the pool driven with opaque closures, as main_test.go does. *)
(* SpecTask     the pool running processTask closures against a backend    *)
(*              that may refuse the connection, answer with any status and *)
(*              either transport, while the shared context may be          *)
(*              cancelled and BACKEND_URL may not parse.                   *)
(* SpecSplit    one processTask after another on single-document responses *)
(*              whose full_response ranges over all short strings.         *)
(* SpecDispatch the event loop handing mention and message events with any *)
(*              short text to the dispatchers.                             *)
(* SpecOrder    two workers relaying to one sink at the same time.         *)
(* SpecSink     one worker relaying to a sink whose sends may fail.        *)
(* SpecFifo     the pool fed by one goroutine, the worker's receive and    *)
(*              its call of the task being separate steps.                 *)
(* SpecFair     Spec under a fair scheduler.                               *)
(* SpecStream   one worker reading event streams that the backend may keep *)
(*              open, under a fair scheduler.                              *)
(***************************************************************************)
EXTENDS Integers, Sequences, FiniteSets, TLC

VARIABLES
    maxWorkers,   \* NewWorkerPool's argument
    tasks,        \* p.tasks: the channel's buffer, a sequence of task ids
    closed,       \* p.tasks has been closed
    sendq,        \* senders parked on the full channel: <<caller, task>>
    wg,           \* p.wg: workers that have not yet called Done
    wpc,          \* per worker: "recv" | "taken" | "run" | "exited"
    wtask,        \* per worker: the task it received last (0: none)
    cpc,          \* per caller of Submit: "idle" | "blocked" | "panicked"
    spc,          \* the caller of Shutdown: "idle" | "waiting" | "returned"
    crashed,      \* an unrecovered panic has ended the process
    closure,      \* per task id: what the submitted func() does
    nextTask,     \* id of the next closure to be created
    submitted,    \* tasks whose Submit has returned
    runs,         \* per task: times a worker has called task()
    finished,     \* per task: times task() has returned
    active,       \* calls of task() in progress
    afterClose,   \* tasks whose Submit was called on the closed channel
    backend,      \* config.BackendURL and what is behind it:
                  \* [parses, fail, answers], see DoRequest and Responses
    cancelled,    \* the shared context is Done
    frame,        \* per worker: processTask's locals
    wlog,         \* per worker: what the running processTask has done so far
    fellback,     \* per worker: tasks it has ended with the fallback message
    api,          \* the sink client: [fake, messages], see Logged
    events,       \* the MessageEvent objects closures hold a pointer to
    last,         \* the latest event handed to a dispatcher, and what it did
    origin        \* per task: user, channel and query as of its dispatch

poolVars == <<maxWorkers, tasks, closed, sendq, wg, wpc, wtask, cpc, spc,
              crashed, closure, nextTask, submitted, runs, finished, active,
              afterClose>>
taskVars == <<backend, cancelled, frame, wlog, fellback, api>>
dispVars == <<events, last, origin>>
vars == <<maxWorkers, tasks, closed, sendq, wg, wpc, wtask, cpc, spc,
          crashed, closure, nextTask, submitted, runs, finished, active,
          afterClose, backend, cancelled, frame, wlog, fellback, api,
          events, last, origin>>

(***************************************************************************)
(* Bounds of the model.                                                    *)
(***************************************************************************)
MaxPool == 2
MaxTasks == 7
NumCallers == 2
MaxRelayTasks == 2
MaxRecords == 3
MaxLen == 5
MaxEvents == 1
MaxText == 2

TaskIds == 1..MaxTasks
Callers == 1..NumCallers

(***************************************************************************)
(* NewWorkerPool: make(chan func(), maxWorkers*2), then one goroutine per  *)
(* i in [0, maxWorkers), each preceded by wg.Add(1).                       *)
(***************************************************************************)
QueueCapHalved(n) == n
QueueCap(n) == n * 2

NumSpawnedInclusive(n) == n + 1
NumSpawned(n) == n

Workers == 1..NumSpawned(maxWorkers)

NoFrame == [pc |-> "none"]
NoResp == [status |-> 0, ctype |-> "", closes |-> FALSE, decodes |-> FALSE,
           full |-> <<>>]

\* What a submitted func() is: nothing yet, an opaque closure (the tests'
\* counters), or processTask with its captured event and query.
\* A closure of processMention holds its own copy of the event (ev is passed
\* by value) and the query; a closure of processDirectMessage holds the
\* pointer ev it was given (ref: the object's place in events).
NoClosure ==
    [kind |-> "none", user |-> "", channel |-> "", query |-> "", ref |-> 0]
FuncClosure ==
    [kind |-> "func", user |-> "", channel |-> "", query |-> "", ref |-> 0]
TaskClosure(u, ch, q) ==
    [kind |-> "task", user |-> u, channel |-> ch, query |-> q, ref |-> 0]
PointerClosure(r) ==
    [kind |-> "dm", user |-> "", channel |-> "", query |-> "", ref |-> r]
Relays(c) == c.kind \in {"task", "dm"}

\* The sink behind the SlackClient interface: the Slack API, or the tests'
\* fakeSlackClient, which keeps a record of the calls made to it.
SlackAPI == [fake |-> FALSE, fails |-> FALSE, messages |-> <<>>]
FakeSlackClient == [fake |-> TRUE, fails |-> FALSE, messages |-> <<>>]

\* A SlackClient whose PostMessageContext may return an error, the message
\* then not being delivered; it records what it delivers.
FailingSlackClient == [fake |-> TRUE, fails |-> TRUE, messages |-> <<>>]

NoEvent == [seq |-> 0, kind |-> "none", text |-> <<>>, botID |-> "",
            channelType |-> "", calls |-> 0, task |-> 0]
NoOrigin == [user |-> "", channel |-> "", query |-> <<>>]

NewWorkerPool(n) ==
    /\ maxWorkers = n
    /\ tasks = <<>>
    /\ closed = FALSE
    /\ sendq = <<>>
    /\ wg = NumSpawned(n)
    /\ wpc = [w \in 1..NumSpawned(n) |-> "recv"]
    /\ wtask = [w \in 1..NumSpawned(n) |-> 0]
    /\ frame = [w \in 1..NumSpawned(n) |-> NoFrame]
    /\ wlog = [w \in 1..NumSpawned(n) |-> <<>>]
    /\ fellback = [w \in 1..NumSpawned(n) |-> 0]

InitRest ==
    /\ cpc = [c \in Callers |-> "idle"]
    /\ spc = "idle"
    /\ crashed = FALSE
    /\ closure = [t \in TaskIds |-> NoClosure]
    /\ nextTask = 1
    /\ submitted = {}
    /\ runs = [t \in TaskIds |-> 0]
    /\ finished = [t \in TaskIds |-> 0]
    /\ active = 0
    /\ afterClose = {}
    /\ cancelled = FALSE
    /\ events = <<>>
    /\ last = NoEvent
    /\ origin = [t \in TaskIds |-> NoOrigin]

Init ==
    /\ \E n \in 1..MaxPool : NewWorkerPool(n)
    /\ InitRest
    /\ backend = [parses |-> TRUE, fail |-> FALSE, answers |-> "none"]
    /\ api = SlackAPI

(***************************************************************************)
(* Submit: p.tasks <- task.  A send on a closed channel panics; nothing in *)
(* the program recovers, so the process ends.  With room in the buffer the *)
(* send completes at once; otherwise the sender parks until a receive      *)
(* makes room (the receive itself moves the parked value into the buffer). *)
(***************************************************************************)
EnqueueFront(q, t) == <<t>> \o q
Enqueue(q, t) == Append(q, t)

ChanSend(c, t) ==
    IF closed
    THEN /\ cpc' = [cpc EXCEPT ![c] = "panicked"]
         /\ crashed' = TRUE
         /\ afterClose' = afterClose \cup {t}
         /\ UNCHANGED <<tasks, sendq, submitted>>
    ELSE IF Len(tasks) < QueueCap(maxWorkers)
    THEN /\ tasks' = Enqueue(tasks, t)
         /\ submitted' = submitted \cup {t}
         /\ UNCHANGED <<cpc, crashed, sendq, afterClose>>
    ELSE /\ sendq' = Append(sendq, <<c, t>>)
         /\ cpc' = [cpc EXCEPT ![c] = "blocked"]
         /\ UNCHANGED <<tasks, crashed, submitted, afterClose>>

Submit(c, body) ==
    /\ ~crashed
    /\ cpc[c] = "idle"
    /\ nextTask <= MaxTasks
    /\ closure' = [closure EXCEPT ![nextTask] = body]
    /\ nextTask' = nextTask + 1
    /\ ChanSend(c, nextTask)
    /\ UNCHANGED <<maxWorkers, closed, wg, wpc, wtask, spc, runs, finished,
                   active>>

SubmitFunc(c) ==
    /\ Submit(c, FuncClosure)
    /\ UNCHANGED taskVars
    /\ UNCHANGED dispVars

(***************************************************************************)
(* worker: for task := range p.tasks { task() }; defer p.wg.Done().        *)
(***************************************************************************)
RangeEndsIgnoringBuffer == closed
RangeEnds == closed /\ tasks = <<>>

\* task(): the closure evaluates processTask's arguments when it is called,
\* the closure of processDirectMessage by reading ev.User, ev.Channel and
\* ev.Text through its pointer; processTask then marshals the request body.
Call(c) ==
    LET ev == IF c.kind = "dm" THEN events[c.ref] ELSE c
        query == IF c.kind = "dm" THEN events[c.ref].text ELSE c.query
    IN [pc |-> "attempt", attempt |-> 0, err |-> FALSE, resp |-> NoResp,
        decoded |-> FALSE, mode |-> "none", pos |-> 0, chunks |-> <<>>,
        ev |-> [user |-> ev.user, channel |-> ev.channel],
        query |-> query,
        reqBody |-> [user_id |-> ev.user, query |-> query,
                     channel_id |-> ev.channel]]

WorkerRecv(w) ==
    /\ ~crashed
    /\ wpc[w] = "recv"
    /\ tasks # <<>>
    /\ LET t == Head(tasks) IN
        /\ wtask' = [wtask EXCEPT ![w] = t]
        /\ wpc' = [wpc EXCEPT ![w] = "run"]
        /\ runs' = [runs EXCEPT ![t] = @ + 1]
        /\ active' = active + 1
        /\ frame' = [frame EXCEPT ![w] =
                        IF closure[t].kind = "func" THEN NoFrame
                        ELSE Call(closure[t])]
        /\ wlog' = [wlog EXCEPT ![w] = <<>>]
    /\ IF sendq # <<>>
       THEN /\ tasks' = Enqueue(Tail(tasks), sendq[1][2])
            /\ sendq' = Tail(sendq)
            /\ cpc' = [cpc EXCEPT ![sendq[1][1]] = "idle"]
            /\ submitted' = submitted \cup {sendq[1][2]}
       ELSE /\ tasks' = Tail(tasks)
            /\ UNCHANGED <<sendq, cpc, submitted>>
    /\ UNCHANGED <<maxWorkers, closed, wg, spc, crashed, closure, nextTask,
                   finished, afterClose, backend, cancelled, fellback, api>>
    /\ UNCHANGED dispVars

\* The same statement in its two steps, for the claims on the order of
\* starts: task := <-p.tasks (the receive of the range clause) ...
WorkerTake(w) ==
    /\ ~crashed
    /\ wpc[w] = "recv"
    /\ tasks # <<>>
    /\ wtask' = [wtask EXCEPT ![w] = Head(tasks)]
    /\ wpc' = [wpc EXCEPT ![w] = "taken"]
    /\ IF sendq # <<>>
       THEN /\ tasks' = Enqueue(Tail(tasks), sendq[1][2])
            /\ sendq' = Tail(sendq)
            /\ cpc' = [cpc EXCEPT ![sendq[1][1]] = "idle"]
            /\ submitted' = submitted \cup {sendq[1][2]}
       ELSE /\ tasks' = Tail(tasks)
            /\ UNCHANGED <<sendq, cpc, submitted>>
    /\ UNCHANGED <<maxWorkers, closed, wg, spc, crashed, closure, nextTask,
                   runs, finished, active, afterClose>>
    /\ UNCHANGED taskVars
    /\ UNCHANGED dispVars

\* ... and task(), once the goroutine is scheduled again.
WorkerCall(w) ==
    /\ ~crashed
    /\ wpc[w] = "taken"
    /\ wpc' = [wpc EXCEPT ![w] = "run"]
    /\ runs' = [runs EXCEPT ![wtask[w]] = @ + 1]
    /\ active' = active + 1
    /\ frame' = [frame EXCEPT ![w] =
                    IF closure[wtask[w]].kind = "func" THEN NoFrame
                    ELSE Call(closure[wtask[w]])]
    /\ wlog' = [wlog EXCEPT ![w] = <<>>]
    /\ UNCHANGED <<maxWorkers, tasks, closed, sendq, wg, wtask, cpc, spc,
                   crashed, closure, nextTask, submitted, finished,
                   afterClose, backend, cancelled, fellback, api>>
    /\ UNCHANGED dispVars

TaskReturns(w) ==
    /\ finished' = [finished EXCEPT ![wtask[w]] = @ + 1]
    /\ active' = active - 1
    /\ wpc' = [wpc EXCEPT ![w] = "recv"]
    /\ UNCHANGED <<maxWorkers, tasks, closed, sendq, wg, wtask, cpc, spc,
                   crashed, closure, nextTask, submitted, runs, afterClose>>

TaskFunc(w) ==
    /\ ~crashed
    /\ wpc[w] = "run"
    /\ closure[wtask[w]].kind = "func"
    /\ TaskReturns(w)
    /\ UNCHANGED taskVars
    /\ UNCHANGED dispVars

WorkerExit(w) ==
    /\ ~crashed
    /\ wpc[w] = "recv"
    /\ RangeEnds
    /\ wpc' = [wpc EXCEPT ![w] = "exited"]
    /\ wg' = wg - 1
    /\ UNCHANGED <<maxWorkers, tasks, closed, sendq, wtask, cpc, spc, crashed,
                   closure, nextTask, submitted, runs, finished, active,
                   afterClose>>
    /\ UNCHANGED taskVars
    /\ UNCHANGED dispVars

(***************************************************************************)
(* Shutdown: close(p.tasks); p.wg.Wait().  Closing the channel wakes every *)
(* parked sender with a panic.                                             *)
(***************************************************************************)
ShutdownClose ==
    /\ ~crashed
    /\ spc = "idle"
    /\ closed' = TRUE
    /\ spc' = "waiting"
    /\ IF sendq # <<>>
       THEN /\ cpc' = [c \in Callers |->
                          IF cpc[c] = "blocked" THEN "panicked" ELSE cpc[c]]
            /\ sendq' = <<>>
            /\ crashed' = TRUE
       ELSE UNCHANGED <<cpc, sendq, crashed>>
    /\ UNCHANGED <<maxWorkers, tasks, wg, wpc, wtask, closure, nextTask,
                   submitted, runs, finished, active, afterClose>>
    /\ UNCHANGED taskVars
    /\ UNCHANGED dispVars

WaitReturns == wg = 0

ShutdownWait ==
    /\ ~crashed
    /\ spc = "waiting"
    /\ WaitReturns
    /\ spc' = "returned"
    /\ UNCHANGED <<maxWorkers, tasks, closed, sendq, wg, wpc, wtask, cpc,
                   crashed, closure, nextTask, submitted, runs, finished,
                   active, afterClose>>
    /\ UNCHANGED taskVars
    /\ UNCHANGED dispVars

(***************************************************************************)
(* processTask.  Texts are sequences of one-character strings; a text the  *)
(* model never takes apart is a sequence of one token.                     *)
(***************************************************************************)
MaxAttemptsOffByOne == 3 + 1
MaxAttempts == 3

Channels == {"C1", "C2"}
Fallback == <<"Service unavailable, please try later">>
Sep == <<".", " ">>
Alphabet == {"A", "B", ".", " "}
WhiteSpace == {" "}

\* The closure processMention and processDirectMessage hand to Submit:
\* processTask(ctx, api, ev, query) with ev and query captured.
\* They are called from one goroutine, the event loop started by main.
EventLoop == 1

\* The channel the next event comes from: events come from the channels in
\* turn, or (SpecOrder, SpecSink) all from one.
Destinations ==
    IF backend.answers = "ordered" THEN {"C1"}
    ELSE {ch \in Channels : (ch = "C1") <=> (nextTask % 2 = 1)}

SubmitTask ==
    /\ nextTask <= MaxRelayTasks
    /\ \E ch \in Destinations :
          Submit(EventLoop, TaskClosure("U1", ch, "q"))
    /\ UNCHANGED taskVars
    /\ UNCHANGED dispVars

InTask(w) == ~crashed /\ wpc[w] = "run" /\ Relays(closure[wtask[w]])

Ev(w) == frame[w].ev

\* The calls of api.PostMessageContext among entries, as the sink receives
\* them: which task called, the channel and the text.
IsPost(e) == e[1] = "sink"
Posted(w, entries) ==
    LET posts == SelectSeq(entries, IsPost)
    IN [i \in 1..Len(posts) |-> <<wtask[w], posts[i][2], posts[i][3]>>]

\* What a call of PostMessageContext may return.
SendResults == IF api.fails THEN {"ok", "err"} ELSE {"ok"}

\* The task's log grows by entries; the sink records the calls among them
\* unless the send failed.
Sent(w, entries, out) ==
    /\ wlog' = [wlog EXCEPT ![w] = @ \o entries]
    /\ api' = IF api.fake /\ out = "ok"
              THEN [api EXCEPT !.messages = @ \o Posted(w, entries)]
              ELSE api

Logged(w, entries) == Sent(w, entries, "ok")

\* api.PostMessageContext(ctx, ev.Channel, ...) as a statement: both results
\* are discarded, the call is made once whatever it returns.
SendUntilDelivered(entry, out) ==
    IF out = "err" THEN <<entry, entry>> ELSE <<entry>>
Send(entry, out) == <<entry>>

TaskFrame ==
    UNCHANGED <<maxWorkers, tasks, closed, sendq, wg, wpc, wtask, cpc, spc,
                crashed, closure, nextTask, submitted, runs, finished, active,
                afterClose, backend, cancelled, fellback, events, last,
                origin>>

\* if err == nil { break }
LoopBreaksOn2xxOnly(e, r) == ~e /\ r.status = 200
LoopBreaks(e, r) == ~e

(***************************************************************************)
(* What the backend may answer once it accepts the connection: a status, a *)
(* declared content type, and either a stream (its lines are drawn one by  *)
(* one as they are scanned; closes tells whether the backend ever closes   *)
(* the transport) or a body that decodes, or not, to a single document.    *)
(***************************************************************************)
StreamResponses ==
    [status : {200, 500}, ctype : {"text/event-stream"}, closes : BOOLEAN,
     decodes : {FALSE}, full : {<<>>}]

JsonResponses ==
    [status : {200, 500}, ctype : {"application/json"}, closes : {TRUE},
     decodes : BOOLEAN,
     full : {<<>>, <<"A">>, <<"A", ".", " ", "B", ".">>}]

Strings(n) == UNION {[1..k -> Alphabet] : k \in 0..n}

DocResponses ==
    [status : {200}, ctype : {"application/json"}, closes : {TRUE},
     decodes : {TRUE}, full : Strings(MaxLen)]
    \cup
    [status : {200}, ctype : {"application/json"}, closes : {TRUE},
     decodes : {FALSE}, full : {<<>>}]

\* The answer of the test backends of processMention and
\* processDirectMessage: one document of one sentence.
Reply == [status |-> 200, ctype |-> "application/json", closes |-> TRUE,
          decodes |-> TRUE, full |-> <<"A">>]

\* Answers whose fragments have an order: a document of two sentences, and
\* a stream of records that the backend closes (see StreamLines).
TwoSentences == [status |-> 200, ctype |-> "application/json", closes |-> TRUE,
                 decodes |-> TRUE, full |-> <<"A", ".", " ", "B", ".">>]
ClosingStream == [status |-> 200, ctype |-> "text/event-stream",
                  closes |-> TRUE, decodes |-> FALSE, full |-> <<>>]

\* Event streams with status 200 whose transport the backend closes after
\* its last line, or keeps open.
Streams ==
    [status : {200}, ctype : {"text/event-stream"}, closes : BOOLEAN,
     decodes : {FALSE}, full : {<<>>}]

\* An event stream whose Content-Type header carries a parameter, as HTTP
\* allows; its body is lines of records, not a JSON document.
StreamWithCharset == [status |-> 200,
                      ctype |-> "text/event-stream; charset=utf-8",
                      closes |-> TRUE, decodes |-> FALSE, full |-> <<>>]

Responses ==
    CASE backend.answers = "any" ->
            StreamResponses \cup JsonResponses \cup {StreamWithCharset}
      [] backend.answers = "documents" -> DocResponses
      [] backend.answers = "reply" -> {Reply}
      [] backend.answers = "ordered" -> {TwoSentences, ClosingStream}
      [] backend.answers = "streams" -> Streams
      [] OTHER -> {}

Done(w, e, r, outcome) ==
    /\ frame' = [frame EXCEPT ![w].err = e, ![w].resp = r,
                    ![w].pc = IF LoopBreaks(e, r) THEN "afterloop" ELSE "sleep"]
    /\ Logged(w, << <<"attempt", outcome>> >>)

\* req, _ := http.NewRequestWithContext(ctx, "POST", config.BackendURL, ...)
\* returns a nil request when the URL does not parse; the error is dropped
\* and req.Header.Set dereferences the nil request: the worker's goroutine
\* panics, nothing recovers, the process ends.
RequestPanics(w) ==
    /\ InTask(w)
    /\ frame[w].pc = "attempt"
    /\ ~backend.parses
    /\ frame' = [frame EXCEPT ![w].pc = "panic"]
    /\ crashed' = TRUE
    /\ UNCHANGED <<maxWorkers, tasks, closed, sendq, wg, wpc, wtask, cpc, spc,
                   closure, nextTask, submitted, runs, finished, active,
                   afterClose, backend, cancelled, wlog, fellback, api>>
    /\ UNCHANGED dispVars

\* resp, err = http.DefaultClient.Do(req), the request built with ctx: a Done
\* context makes Do fail without connecting.
DoRequest(w) ==
    /\ InTask(w)
    /\ frame[w].pc = "attempt"
    /\ backend.parses
    /\ \/ /\ cancelled
          /\ Done(w, TRUE, NoResp, "ctx")
       \/ /\ ~cancelled
          /\ backend.fail
          /\ Done(w, TRUE, NoResp, "fail")
       \/ /\ ~cancelled
          /\ \E r \in Responses : Done(w, FALSE, r, "ok")
    /\ TaskFrame

\* time.Sleep(time.Duration(attempt+1) * time.Second): the wait begins ...
BackoffStart(w) ==
    /\ InTask(w)
    /\ frame[w].pc = "sleep"
    /\ frame' = [frame EXCEPT ![w].pc = "sleeping"]
    /\ Logged(w, << <<"sleep", frame[w].attempt + 1>> >>)
    /\ TaskFrame

\* ... and ends; then attempt++ and the loop condition attempt < 3.
BackoffEnd(w) ==
    /\ InTask(w)
    /\ frame[w].pc = "sleeping"
    /\ frame' = [frame EXCEPT ![w].attempt = @ + 1,
                    ![w].pc = IF frame[w].attempt + 1 < MaxAttempts
                              THEN "attempt" ELSE "afterloop"]
    /\ Logged(w, << <<"wake", frame[w].attempt + 1>> >>)
    /\ TaskFrame

\* if err != nil { ...; api.PostMessageContext(ctx, ev.Channel, fallback); return }
PostFallback(w) ==
    /\ InTask(w)
    /\ frame[w].pc = "afterloop"
    /\ frame[w].err
    /\ frame' = [frame EXCEPT ![w].pc = "return"]
    /\ Logged(w, << <<"sink", Ev(w).channel, Fallback>> >>)
    /\ fellback' = [fellback EXCEPT ![w] = 1]
    /\ UNCHANGED <<maxWorkers, tasks, closed, sendq, wg, wpc, wtask, cpc, spc,
                   crashed, closure, nextTask, submitted, runs, finished,
                   active, afterClose, backend, cancelled>>
    /\ UNCHANGED dispVars

(***************************************************************************)
(* strings.SplitAfter(s, ". ") as genSplit computes it: cut after the      *)
(* first occurrence of the separator, go on with the rest.                 *)
(***************************************************************************)
Index(s) ==
    LET hits == {i \in 1..(Len(s) - 1) : s[i] = Sep[1] /\ s[i + 1] = Sep[2]}
    IN IF hits = {} THEN -1
       ELSE (CHOOSE i \in hits : \A j \in hits : i <= j) - 1

RECURSIVE SplitDroppingSep(_)
SplitDroppingSep(s) ==
    LET m == Index(s)
    IN IF m < 0 THEN <<s>>
       ELSE <<SubSeq(s, 1, m)>> \o SplitDroppingSep(SubSeq(s, m + 3, Len(s)))

RECURSIVE SplitAfter(_)
SplitAfter(s) ==
    LET m == Index(s)
    IN IF m < 0 THEN <<s>>
       ELSE <<SubSeq(s, 1, m + 2)>> \o SplitAfter(SubSeq(s, m + 3, Len(s)))

\* strings.TrimSpace
RECURSIVE TrimLeft(_)
TrimLeft(s) ==
    IF s # <<>> /\ Head(s) \in WhiteSpace THEN TrimLeft(Tail(s)) ELSE s

RECURSIVE TrimRight(_)
TrimRight(s) ==
    IF s # <<>> /\ s[Len(s)] \in WhiteSpace
    THEN TrimRight(SubSeq(s, 1, Len(s) - 1)) ELSE s

TrimSpace(s) == TrimRight(TrimLeft(s))

\* switch resp.Header.Get("Content-Type"): the stream is scanned line by line,
\* anything else is decoded as one JSON document and split.  Decode reads
\* the body: once the context is Done that read may fail, or may still be
\* served from what has already arrived.
Switch(w) ==
    /\ InTask(w)
    /\ frame[w].pc = "afterloop"
    /\ ~frame[w].err
    /\ \E read \in (IF cancelled THEN BOOLEAN ELSE {TRUE}) :
          LET stream == frame[w].resp.ctype = "text/event-stream"
              ok == ~stream /\ read /\ frame[w].resp.decodes
          IN frame' = [frame EXCEPT
                          ![w].pc = IF stream THEN "scan"
                                    ELSE IF ok THEN "chunks" ELSE "return",
                          ![w].mode = IF stream THEN "lines" ELSE "document",
                          ![w].decoded = ok,
                          ![w].chunks = IF ok THEN SplitAfter(frame[w].resp.full)
                                        ELSE <<>>]
    /\ UNCHANGED <<wlog, api>>
    /\ TaskFrame

\* One line as the scanner delivers it: a data record that decodes (with its
\* event and text_chunk), a data record that does not, or any other line.
Part(x) == [data |-> TRUE, ok |-> TRUE, event |-> "message_part", text |-> <<x>>]
StreamEnd == [data |-> TRUE, ok |-> TRUE, event |-> "stream_end", text |-> <<>>]
BadRecord == [data |-> TRUE, ok |-> FALSE, event |-> "", text |-> <<>>]
OtherLine == [data |-> FALSE, ok |-> FALSE, event |-> "", text |-> <<>>]
Lines == {Part("x"), Part("y"), StreamEnd, BadRecord, OtherLine}

\* The lines the backend in use may send after n others: any, or (the
\* stream of SpecOrder) the records x, y, x, ... in turn.
StreamLines(n) ==
    IF backend.answers = "ordered"
    THEN {Part(IF n % 2 = 0 THEN "x" ELSE "y")}
    ELSE Lines

\* if HasPrefix(line, "data: ") { if Unmarshal(...) == nil {
\*     if msg.Event == "message_part" { ...
RelayedUndecoded(l) == l.data
Relayed(l) == l.data /\ l.ok /\ l.event = "message_part"

\* api.PostMessageContext(ctx, ev.Channel, ...); time.Sleep(500 * time.Millisecond)
Unpaced(calls) == calls
Paced(calls) == calls \o << <<"pace">> >>

\* select { case <-ctx.Done(): return; default: ... } in the loop of lines
StreamNeverAborts == FALSE
StreamAborts == cancelled

\* for scanner.Scan() { select { case <-ctx.Done(): return; default: ... } }
\* Scan() has delivered a line; on a Done context the function returns
\* before looking at it (logged as "unread").
ScanLine(w) ==
    /\ InTask(w)
    /\ frame[w].pc = "scan"
    /\ frame[w].pos < MaxRecords
    /\ \E l \in StreamLines(frame[w].pos) :
          IF StreamAborts
          THEN /\ frame' = [frame EXCEPT ![w].pc = "return"]
               /\ Logged(w, << <<"unread", l>> >>)
          ELSE /\ frame' = [frame EXCEPT ![w].pos = @ + 1]
               /\ \E out \in SendResults :
                     Sent(w, << <<"line", l>> >> \o
                             (IF Relayed(l)
                              THEN Paced(Send(<<"sink", Ev(w).channel, l.text>>,
                                              out))
                              ELSE <<>>),
                          out)
    /\ TaskFrame

\* scanner.Scan() returns false: the transport was closed by the backend, or
\* reading it failed because the context is Done.
ScanEnds(w) ==
    /\ InTask(w)
    /\ frame[w].pc = "scan"
    /\ frame[w].resp.closes \/ cancelled
    /\ frame' = [frame EXCEPT ![w].pc = "return"]
    /\ UNCHANGED <<wlog, api>>
    /\ TaskFrame

\* for _, chunk := range chunks: the chunk of the iteration that follows
\* pos completed ones.
NthChunkFromEnd(chunks, pos) == chunks[Len(chunks) - pos]
NthChunk(chunks, pos) == chunks[pos + 1]

\* for _, chunk := range chunks { chunk = TrimSpace(chunk); if chunk != "" {...} }
EmitChunk(w) ==
    /\ InTask(w)
    /\ frame[w].pc = "chunks"
    /\ IF frame[w].pos < Len(frame[w].chunks)
       THEN LET chunk == TrimSpace(NthChunk(frame[w].chunks, frame[w].pos))
            IN /\ frame' = [frame EXCEPT ![w].pos = @ + 1]
               /\ \E out \in SendResults :
                     Sent(w, IF chunk # <<>>
                             THEN Paced(Send(<<"sink", Ev(w).channel, chunk>>,
                                             out))
                             ELSE <<>>,
                          out)
       ELSE /\ frame' = [frame EXCEPT ![w].pc = "return"]
            /\ UNCHANGED <<wlog, api>>
    /\ TaskFrame

\* processTask returns to the worker's loop.
Return(w) ==
    /\ InTask(w)
    /\ frame[w].pc = "return"
    /\ TaskReturns(w)
    /\ frame' = [frame EXCEPT ![w] = NoFrame]
    /\ wlog' = [wlog EXCEPT ![w] = <<>>]
    /\ UNCHANGED <<backend, cancelled, fellback, api>>
    /\ UNCHANGED dispVars

\* signal.NotifyContext: the shared context becomes Done.
Cancel ==
    /\ ~crashed
    /\ ~cancelled
    /\ cancelled' = TRUE
    /\ wlog' = [w \in Workers |->
                  IF wpc[w] = "run" /\ Relays(closure[wtask[w]])
                  THEN Append(wlog[w], <<"cancel">>) ELSE wlog[w]]
    /\ UNCHANGED <<maxWorkers, tasks, closed, sendq, wg, wpc, wtask, cpc, spc,
                   crashed, closure, nextTask, submitted, runs, finished,
                   active, afterClose, backend, frame, fellback, api>>
    /\ UNCHANGED dispVars

Next ==
    \/ \E c \in Callers : SubmitFunc(c)
    \/ \E w \in Workers : WorkerRecv(w)
    \/ \E w \in Workers : TaskFunc(w)
    \/ \E w \in Workers : WorkerExit(w)
    \/ ShutdownClose
    \/ ShutdownWait

Spec == Init /\ [][Next]_vars

\* The Go scheduler leaves no runnable goroutine waiting for ever: a worker
\* that can receive, return from its task or leave its loop does so, and
\* Shutdown's wg.Wait() returns once the counter is zero.  Callers are under
\* no obligation to call Submit or Shutdown.
Fairness ==
    /\ \A w \in 1..MaxPool :
          WF_vars(w \in Workers
                     /\ (WorkerRecv(w) \/ TaskFunc(w) \/ WorkerExit(w)))
    /\ WF_vars(ShutdownWait)

SpecFair == Init /\ [][Next]_vars /\ Fairness

(***************************************************************************)
(* SpecTask: a pool of one worker, as the tests of processMention build    *)
(* it, running processTask closures; BACKEND_URL may be a string that does *)
(* not parse as a URL.                                                     *)
(***************************************************************************)
InitTask ==
    /\ NewWorkerPool(1)
    /\ InitRest
    /\ \E p \in BOOLEAN :
          backend = [parses |-> p, fail |-> TRUE, answers |-> "any"]
    /\ api = SlackAPI

NextTask ==
    \/ SubmitTask
    \/ \E w \in Workers : WorkerRecv(w)
    \/ \E w \in Workers : RequestPanics(w)
    \/ \E w \in Workers : DoRequest(w)
    \/ \E w \in Workers : BackoffStart(w)
    \/ \E w \in Workers : BackoffEnd(w)
    \/ \E w \in Workers : PostFallback(w)
    \/ \E w \in Workers : Switch(w)
    \/ \E w \in Workers : ScanLine(w)
    \/ \E w \in Workers : ScanEnds(w)
    \/ \E w \in Workers : EmitChunk(w)
    \/ \E w \in Workers : Return(w)
    \/ \E w \in Workers : WorkerExit(w)
    \/ Cancel
    \/ ShutdownClose
    \/ ShutdownWait

SpecTask == InitTask /\ [][NextTask]_vars

(***************************************************************************)
(* SpecSplit: the same pool and processTask, the backend always answering  *)
(* with a single document whose full_response is any string of at most     *)
(* MaxLen characters (or with a body that does not decode).                *)
(***************************************************************************)
InitSplit ==
    /\ NewWorkerPool(1)
    /\ InitRest
    /\ backend = [parses |-> TRUE, fail |-> FALSE, answers |-> "documents"]
    /\ api = SlackAPI

NextSplit ==
    \/ SubmitTask
    \/ \E w \in Workers : WorkerRecv(w)
    \/ \E w \in Workers : DoRequest(w)
    \/ \E w \in Workers : Switch(w)
    \/ \E w \in Workers : EmitChunk(w)
    \/ \E w \in Workers : Return(w)

SpecSplit == InitSplit /\ [][NextSplit]_vars

(***************************************************************************)
(* The dispatchers.  An event's text is a sequence of atoms: the mention   *)
(* token "<@B1>", a blank, or a letter; no token can begin inside an atom, *)
(* so an occurrence of a token in the text is one of its atoms.            *)
(***************************************************************************)
BotIDs == {"", "B1"}
Users == {"U1"}
ChannelTypes == {"im", "channel"}

Mention(id) == "<@" \o id \o ">"
Atoms == {Mention("B1"), " ", "a"}
Texts == UNION {[1..k -> Atoms] : k \in 0..MaxText}
\* processDirectMessage only tests ev.Text for emptiness and passes it on.
PlainTexts == UNION {[1..k -> Atoms \ {Mention("B1")}] : k \in 0..MaxText}

\* strings.Index(s, old): where old first occurs in s, counted from 0, or -1.
IndexOf(s, old) ==
    LET hits == {i \in 0..(Len(s) - Len(old)) :
                    SubSeq(s, i + 1, i + Len(old)) = old}
    IN IF hits = {} THEN -1 ELSE CHOOSE i \in hits : \A j \in hits : i <= j

\* strings.ReplaceAll(s, old, ""): copy s up to the next occurrence of old,
\* skip the occurrence, go on behind it.
ReplaceFirst(s, old) ==
    LET j == IndexOf(s, old)
    IN IF j < 0 THEN s
       ELSE SubSeq(s, 1, j) \o SubSeq(s, j + Len(old) + 1, Len(s))

RECURSIVE ReplaceAll(_, _)
ReplaceAll(s, old) ==
    LET j == IndexOf(s, old)
    IN IF j < 0 THEN s
       ELSE SubSeq(s, 1, j) \o
            ReplaceAll(SubSeq(s, j + Len(old) + 1, Len(s)), old)

\* cleanQuery := strings.TrimSpace(strings.ReplaceAll(ev.Text, "<@"+ev.BotID+">", ""))
CleanQueryUntrimmed(ev) == ReplaceAll(ev.text, <<Mention(ev.botID)>>)
CleanQuery(ev) == TrimSpace(ReplaceAll(ev.text, <<Mention(ev.botID)>>))

\* The event loop handles one event at a time, and none while it is parked
\* in Submit; a dispatcher that returns early has changed nothing.
Delivered(ev, kind, n, t) ==
    last' = [seq |-> last.seq + 1, kind |-> kind, text |-> ev.text,
             botID |-> ev.botID, channelType |-> ev.channelType,
             calls |-> n, task |-> t]

Dropped(ev, kind) ==
    /\ ~crashed
    /\ cpc[EventLoop] = "idle"
    /\ Delivered(ev, kind, 0, 0)
    /\ UNCHANGED <<events, origin>>
    /\ UNCHANGED poolVars
    /\ UNCHANGED taskVars

ProcessMention ==
    /\ last.seq < MaxEvents
    /\ \E u \in Users, ch \in Channels, text \in Texts, id \in BotIDs :
          LET ev == [user |-> u, channel |-> ch, text |-> text, botID |-> id,
                     channelType |-> ""]
              cleanQuery == CleanQuery(ev)
          IN IF cleanQuery = <<>>
             THEN Dropped(ev, "mention")
             ELSE /\ Submit(EventLoop, TaskClosure(u, ch, cleanQuery))
                  /\ Delivered(ev, "mention", 1, nextTask)
                  /\ origin' = [origin EXCEPT ![nextTask] =
                                   [user |-> u, channel |-> ch,
                                    query |-> cleanQuery]]
                  /\ UNCHANGED events
                  /\ UNCHANGED taskVars

\* if ev.BotID != "" || ev.Text == "" { return }
IgnoresBotsOnly(ev) == ev.botID # ""
IgnoresBotOrEmpty(ev) == ev.botID # "" \/ ev.text = <<>>

\* if ev.ChannelType != "im" { return }
IgnoresNothing(ev) == FALSE
IgnoresNonIM(ev) == ev.channelType # "im"

ProcessDirectMessage ==
    /\ last.seq < MaxEvents
    /\ \E u \in Users, ch \in Channels, text \in PlainTexts, id \in BotIDs,
          ct \in ChannelTypes :
          LET ev == [user |-> u, channel |-> ch, text |-> text, botID |-> id,
                     channelType |-> ct]
          IN IF IgnoresBotOrEmpty(ev) \/ IgnoresNonIM(ev)
             THEN Dropped(ev, "message")
             ELSE /\ events' = Append(events, ev)
                  /\ Submit(EventLoop, PointerClosure(Len(events) + 1))
                  /\ Delivered(ev, "message", 1, nextTask)
                  /\ origin' = [origin EXCEPT ![nextTask] =
                                   [user |-> u, channel |-> ch,
                                    query |-> text]]
                  /\ UNCHANGED taskVars

\* The MessageEvent stays the caller's object: a caller that writes to it
\* after processDirectMessage has returned writes to what the closure reads.
MutateEvent ==
    /\ ~crashed
    /\ \E r \in 1..Len(events) :
          \E ch \in Channels \ {events[r].channel} :
             events' = [events EXCEPT ![r].channel = ch]
    /\ UNCHANGED <<last, origin>>
    /\ UNCHANGED poolVars
    /\ UNCHANGED taskVars

(***************************************************************************)
(* SpecDispatch: the event loop hands up to MaxEvents events, mentions and *)
(* messages with any text of at most MaxText atoms, to the dispatchers;    *)
(* one worker runs the tasks against a backend that answers, the sink is   *)
(* the recording fake, and main's deferred Shutdown may come at any time.  *)
(***************************************************************************)
InitDispatch ==
    /\ NewWorkerPool(1)
    /\ InitRest
    /\ backend = [parses |-> TRUE, fail |-> FALSE, answers |-> "reply"]
    /\ api = FakeSlackClient

NextDispatch ==
    \/ ProcessMention
    \/ ProcessDirectMessage
    \/ MutateEvent
    \/ \E w \in Workers : WorkerRecv(w)
    \/ \E w \in Workers : DoRequest(w)
    \/ \E w \in Workers : Switch(w)
    \/ \E w \in Workers : EmitChunk(w)
    \/ \E w \in Workers : Return(w)
    \/ \E w \in Workers : WorkerExit(w)
    \/ ShutdownClose
    \/ ShutdownWait

SpecDispatch == InitDispatch /\ [][NextDispatch]_vars

(***************************************************************************)
(* SpecOrder: two workers relay the tasks of one channel at the same time  *)
(* to the recording fake; the backend answers each with a document of two  *)
(* sentences or with a stream of the records x, y, x, ... that it closes   *)
(* after any of them.                                                      *)
(***************************************************************************)
InitOrder ==
    /\ NewWorkerPool(2)
    /\ InitRest
    /\ backend = [parses |-> TRUE, fail |-> FALSE, answers |-> "ordered"]
    /\ api = FakeSlackClient

NextOrder ==
    \/ SubmitTask
    \/ \E w \in Workers : WorkerRecv(w)
    \/ \E w \in Workers : DoRequest(w)
    \/ \E w \in Workers : Switch(w)
    \/ \E w \in Workers : ScanLine(w)
    \/ \E w \in Workers : ScanEnds(w)
    \/ \E w \in Workers : EmitChunk(w)
    \/ \E w \in Workers : Return(w)

SpecOrder == InitOrder /\ [][NextOrder]_vars

(***************************************************************************)
(* SpecSink: one worker relaying responses to a sink whose sends may fail. *)
(***************************************************************************)
InitSink ==
    /\ NewWorkerPool(1)
    /\ InitRest
    /\ backend = [parses |-> TRUE, fail |-> FALSE, answers |-> "ordered"]
    /\ api = FailingSlackClient

NextSink ==
    \/ SubmitTask
    \/ \E w \in Workers : WorkerRecv(w)
    \/ \E w \in Workers : DoRequest(w)
    \/ \E w \in Workers : Switch(w)
    \/ \E w \in Workers : ScanLine(w)
    \/ \E w \in Workers : ScanEnds(w)
    \/ \E w \in Workers : EmitChunk(w)
    \/ \E w \in Workers : Return(w)

SpecSink == InitSink /\ [][NextSink]_vars

(***************************************************************************)
(* SpecStream: one worker reading event streams that the backend may keep  *)
(* open, a shared context that is never cancelled, and a scheduler that    *)
(* runs the worker goroutine and Shutdown whenever they can take a step.   *)
(* A backend that closes its transport does so in the end (Scan() then     *)
(* returns false); no backend is obliged to send a further line.           *)
(***************************************************************************)
InitStream ==
    /\ NewWorkerPool(1)
    /\ InitRest
    /\ backend = [parses |-> TRUE, fail |-> FALSE, answers |-> "streams"]
    /\ api = SlackAPI

NextStream ==
    \/ SubmitTask
    \/ \E w \in Workers : WorkerRecv(w)
    \/ \E w \in Workers : DoRequest(w)
    \/ \E w \in Workers : Switch(w)
    \/ \E w \in Workers : ScanLine(w)
    \/ \E w \in Workers : ScanEnds(w)
    \/ \E w \in Workers : Return(w)
    \/ \E w \in Workers : WorkerExit(w)
    \/ ShutdownClose
    \/ ShutdownWait

FairnessStream ==
    /\ WF_vars(\E w \in Workers :
                  \/ WorkerRecv(w) \/ DoRequest(w) \/ Switch(w)
                  \/ ScanEnds(w) \/ Return(w) \/ WorkerExit(w))
    /\ WF_vars(ShutdownWait)

SpecStream == InitStream /\ [][NextStream]_vars /\ FairnessStream

(***************************************************************************)
(* SpecFifo: the pool fed by one goroutine, as main's event loop feeds it, *)
(* with the worker's receive and its call of the task as separate steps.   *)
(* Task ids are given in the order of the Submit calls, and one caller's   *)
(* calls do not overlap: Submit of task a has returned before Submit of    *)
(* task b is called exactly when a < b.                                    *)
(***************************************************************************)
NextFifo ==
    \/ SubmitFunc(EventLoop)
    \/ \E w \in Workers : WorkerTake(w)
    \/ \E w \in Workers : WorkerCall(w)
    \/ \E w \in Workers : TaskFunc(w)
    \/ \E w \in Workers : WorkerExit(w)
    \/ ShutdownClose
    \/ ShutdownWait

SpecFifo == Init /\ [][NextFifo]_vars

(***************************************************************************)
(* Claims about the pool.                                                  *)
(***************************************************************************)

\* C1: once Shutdown has returned, every task whose Submit returned has been
\* executed exactly once (started once, returned once); at no time has any
\* task been started twice, and nothing that was never submitted has run.
C1_AllRunExactlyOnce ==
    /\ \A t \in TaskIds : runs[t] <= 1 /\ finished[t] <= runs[t]
    /\ \A t \in TaskIds : runs[t] = 1 => t \in submitted
    /\ spc = "returned" =>
          \A t \in submitted : runs[t] = 1 /\ finished[t] = 1

C1_Witness ==
    /\ spc = "returned"
    /\ maxWorkers = 1
    /\ Cardinality(submitted) >= 4
    /\ \A t \in submitted : finished[t] = 1

\* C2: at most maxWorkers calls of task() are in progress at any time.
C2_AtMostNExecuting == active <= maxWorkers

C2_Witness ==
    /\ maxWorkers = 2
    /\ active = 2
    /\ Len(tasks) = 4
    /\ sendq # <<>>

\* C3: the buffer never holds more than 2 * maxWorkers tasks, and a caller is
\* parked inside Submit only while the buffer holds exactly that many: with
\* fewer, Submit has returned, whether or not any task has completed.
C3_BlocksOnlyWhenFull ==
    /\ Len(tasks) <= 2 * maxWorkers
    /\ \A c \in Callers :
          cpc[c] = "blocked" => Len(tasks) = 2 * maxWorkers /\ ~closed
    /\ Len(sendq) = Cardinality({c \in Callers : cpc[c] = "blocked"})

C3_Witness ==
    /\ \E c \in Callers : cpc[c] = "blocked"
    /\ \E t \in submitted : runs[t] = 0
    /\ \A t \in TaskIds : finished[t] = 0

\* C4: a Submit called on the closed pool is answered with an error to its
\* caller and leaves the pool alone: nobody panics, the process lives on.
C4_SubmitAfterShutdownRejected ==
    afterClose # {} =>
        /\ ~crashed
        /\ \A c \in Callers : cpc[c] # "panicked"

(***************************************************************************)
(* Claims about processTask.                                               *)
(***************************************************************************)
Running(w) == wpc[w] = "run" /\ Relays(closure[wtask[w]])

IsAttempt(e) == e[1] = "attempt"
IsSink(e) == e[1] = "sink"
IsLine(e) == e[1] = "line"

Attempts(w) == SelectSeq(wlog[w], IsAttempt)
Sinks(w) == SelectSeq(wlog[w], IsSink)
SinkTexts(w) == [i \in 1..Len(Sinks(w)) |-> Sinks(w)[i][3]]
LinesRead(w) == [i \in 1..Len(SelectSeq(wlog[w], IsLine)) |->
                    SelectSeq(wlog[w], IsLine)[i][2]]

AllFailed(w) == \A i \in 1..Len(Attempts(w)) : Attempts(w)[i][2] # "ok"

\* Control is in the loop of lines 204-212 (a goroutine that panicked at
\* line 206 ended there).
InLoop(w) == frame[w].pc \in {"attempt", "sleep", "sleeping", "panic"}

C6_RetryOnlyOnConnectionFailure ==
    \A w \in Workers :
        Running(w) =>
            LET A == Attempts(w)
                n == Len(A)
            IN /\ n <= 3
               /\ \A i \in 1..(n - 1) : A[i][2] # "ok"
               /\ (n >= 1 /\ A[n][2] = "ok") => ~InLoop(w)
               /\ ~InLoop(w) => n >= 1 /\ (A[n][2] = "ok" \/ n = 3)

C6_Witness ==
    \E w \in Workers :
        /\ Running(w)
        /\ frame[w].pc = "return"
        /\ ~frame[w].err
        /\ frame[w].resp.status = 500
        /\ Attempts(w) = << <<"attempt", "fail">>, <<"attempt", "ok">> >>

\* C7: nothing of a response with a non-2xx status reaches the sink.
C7_Non2xxNotRelayed ==
    \A w \in Workers :
        (Running(w) /\ ~frame[w].err /\ frame[w].resp.status \notin 200..299)
            => Sinks(w) = <<>>

\* C8: once the context is cancelled, the task makes no connection attempt
\* and neither starts nor completes a backoff wait.
C8_AbortsOnCancel ==
    \A w \in Workers :
        Running(w) =>
            \A i, j \in 1..Len(wlog[w]) :
                (i < j /\ wlog[w][i][1] = "cancel") =>
                    /\ wlog[w][j][1] \notin {"sleep", "wake"}
                    /\ wlog[w][j][1] = "attempt" => wlog[w][j][2] = "ctx"

IsEnd(l) == l.data /\ l.ok /\ l.event = "stream_end"
IsPart(l) == l.data /\ l.ok /\ l.event = "message_part"

BeforeEnd(ls) ==
    LET ends == {i \in 1..Len(ls) : IsEnd(ls[i])}
    IN IF ends = {} THEN ls
       ELSE SubSeq(ls, 1, (CHOOSE i \in ends : \A j \in ends : i <= j) - 1)

PartTexts(ls) ==
    [i \in 1..Len(SelectSeq(ls, IsPart)) |-> SelectSeq(ls, IsPart)[i].text]

\* C9: on a streamed response the texts sent to the sink are exactly those of
\* the message_part records read before the first stream_end record: nothing
\* is sent for the stream_end record nor for any record after it.
C9_StopsAtTerminal ==
    \A w \in Workers :
        (Running(w) /\ ~frame[w].err /\ frame[w].resp.ctype = "text/event-stream")
            => SinkTexts(w) = PartTexts(BeforeEnd(LinesRead(w)))

(***************************************************************************)
(* C10.  The pieces of s, stated on positions: a cut falls after every     *)
(* ". ", a piece runs from one cut to the next, and of each piece what     *)
(* lies between its first and last non-space character is kept.            *)
(***************************************************************************)
PieceEnds(s) ==
    {i + 1 : i \in {k \in 1..(Len(s) - 1) : s[k] = "." /\ s[k + 1] = " "}}
        \cup {Len(s)}

PieceStart(s, e) ==
    LET before == {x \in PieceEnds(s) : x < e}
    IN IF before = {} THEN 1
       ELSE (CHOOSE x \in before : \A y \in before : y <= x) + 1

Inked(s, e) == {i \in PieceStart(s, e)..e : s[i] # " "}

KeptEnds(s) == {e \in PieceEnds(s) : Inked(s, e) # {}}

Pieces(s) ==
    [k \in 1..Cardinality(KeptEnds(s)) |->
        LET e == CHOOSE x \in KeptEnds(s) :
                    Cardinality({y \in KeptEnds(s) : y < x}) = k - 1
            lo == CHOOSE i \in Inked(s, e) : \A j \in Inked(s, e) : i <= j
            hi == CHOOSE i \in Inked(s, e) : \A j \in Inked(s, e) : j <= i
        IN SubSeq(s, lo, hi)]

IsPrefix(a, b) == Len(a) <= Len(b) /\ \A i \in 1..Len(a) : a[i] = b[i]

SingleDoc(w) ==
    /\ Running(w)
    /\ ~frame[w].err
    /\ frame[w].resp.ctype # "text/event-stream"
    /\ frame[w].decoded

\* C10: for a single-document response the sink calls are, in order and all
\* to the event's channel, the trimmed non-empty pieces of full_response cut
\* after every ". "; "A. B." gives "A." then "B.", a text without ". " gives
\* at most one call, a text of spaces only gives none.
C10_SingleDocumentPieces ==
    \A w \in Workers :
        SingleDoc(w) =>
            LET s == frame[w].resp.full IN
            /\ IsPrefix(SinkTexts(w), Pieces(s))
            /\ \A i \in 1..Len(Sinks(w)) : Sinks(w)[i][2] = Ev(w).channel
            /\ frame[w].pc = "return" =>
                /\ Len(SinkTexts(w)) = Len(Pieces(s))
                /\ s = <<"A", ".", " ", "B", ".">> =>
                      SinkTexts(w) = << <<"A", ".">>, <<"B", ".">> >>
                /\ (s # <<>> /\ \A i \in 1..Len(s) : s[i] \notin {".", " "}) =>
                      SinkTexts(w) = <<s>>
                /\ (\A i \in 1..Len(s) : s[i] = " ") => SinkTexts(w) = <<>>

C10_Witness ==
    \E w \in Workers :
        /\ SingleDoc(w)
        /\ frame[w].pc = "return"
        /\ frame[w].resp.full = <<"A", ".", " ", "B", ".">>
        /\ Len(Sinks(w)) = 2

(***************************************************************************)
(* Claims about the dispatchers.                                           *)
(***************************************************************************)
Dispatches(kind) == last'.seq = last.seq + 1 /\ last'.kind = kind

\* Nothing is left of the text once the token "<@ID>" and the blanks are
\* taken out of it.
Blank(text, id) == \A i \in 1..Len(text) : text[i] \in {Mention(id), " "}

\* C11: a call of processMention with an event whose text consists of
\* self-mention tokens and blanks only makes no call of Submit and changes
\* nothing: the queue, the parked senders, the closures created so far and
\* the sink's record are after the call what they were before it.
C11_EmptyMentionNoTask ==
    [][Dispatches("mention") /\ Blank(last'.text, last'.botID)
          => /\ last'.calls = 0
             /\ last'.task = 0
             /\ UNCHANGED <<tasks, sendq, closure, nextTask, submitted, api,
                            frame, events, origin, crashed>>]_vars

C11_Witness ==
    /\ last.kind = "mention"
    /\ last.text = <<Mention("B1"), " ">>
    /\ last.botID = "B1"
    /\ last.calls = 0
    /\ ~closed

\* C12: a mention event with an empty BotID is dropped, whatever its text:
\* processMention makes no call of Submit for it.
C12_NoBotIdDropped ==
    last.kind = "mention" /\ last.botID = "" =>
        last.calls = 0 /\ last.task = 0

\* The text between its first and its last atom that is not a blank.
Ink(s) == {i \in 1..Len(s) : s[i] # " "}
Trimmed(s) ==
    IF Ink(s) = {} THEN <<>>
    ELSE SubSeq(s, CHOOSE i \in Ink(s) : \A j \in Ink(s) : i <= j,
                   CHOOSE i \in Ink(s) : \A j \in Ink(s) : j <= i)

LeadingStripped(text, id) ==
    IF text # <<>> /\ text[1] = Mention(id) THEN Tail(text) ELSE text

WithoutToken(text, id) == SelectSeq(text, LAMBDA a : a # Mention(id))

\* C13 as stated: for a mention event with a BotID whose text is not empty
\* once the leading self-mention token is taken off and the rest trimmed,
\* processMention submits one task whose query is exactly that rest, later
\* occurrences of the token included.
C13_LeadingTokenOnly ==
    LET q == Trimmed(LeadingStripped(last.text, last.botID))
    IN last.kind = "mention" /\ last.botID # "" /\ q # <<>> =>
          /\ last.calls = 1
          /\ closure[last.task].kind = "task"
          /\ closure[last.task].query = q

\* C13, amended: for a mention event with a BotID whose text is not empty
\* once every occurrence of the self-mention token is taken out and the
\* rest trimmed, processMention calls Submit exactly once, with a task
\* whose query is that rest.
C13_EveryTokenStripped ==
    LET q == Trimmed(WithoutToken(last.text, last.botID))
    IN last.kind = "mention" /\ last.botID # "" /\ q # <<>> =>
          /\ last.calls = 1
          /\ closure[last.task].kind = "task"
          /\ closure[last.task].query = q

C13_Witness ==
    /\ last.kind = "mention"
    /\ last.botID = "B1"
    /\ last.text = <<"a", Mention("B1")>>
    /\ last.calls = 1
    /\ closure[last.task].query = <<"a">>
    /\ last.task \in submitted

\* C14 as stated: for a message event with an empty BotID and channel type
\* "im", processDirectMessage submits one task, whatever the text.
C14_AnyTextOneTask ==
    last.kind = "message" /\ last.botID = "" /\ last.channelType = "im" =>
        last.calls = 1

\* C14, amended: for a message event with an empty BotID and channel type
\* "im", processDirectMessage calls Submit exactly once when the text is
\* not empty, with a closure that holds the event, and not at all when the
\* text is empty.
C14_NonEmptyTextOneTask ==
    last.kind = "message" /\ last.botID = "" /\ last.channelType = "im" =>
        IF last.text # <<>>
        THEN /\ last.calls = 1
             /\ closure[last.task].kind = "dm"
             /\ closure[last.task].ref \in 1..Len(events)
        ELSE last.calls = 0 /\ last.task = 0

C14_Witness ==
    /\ last.kind = "message"
    /\ last.botID = ""
    /\ last.channelType = "im"
    /\ last.text = <<"a", " ">>
    /\ last.calls = 1
    /\ last.task \in submitted

\* C15: a call of processDirectMessage with an event that has a BotID, or a
\* channel type other than "im", makes no call of Submit and changes
\* nothing: the queue, the closures, the event objects held and the sink's
\* record are after the call what they were before it.
C15_BotOrNonIMNoTask ==
    [][Dispatches("message") /\
       (last'.botID # "" \/ last'.channelType # "im")
          => /\ last'.calls = 0
             /\ last'.task = 0
             /\ UNCHANGED <<tasks, sendq, closure, nextTask, submitted, api,
                            frame, events, origin, crashed>>]_vars

C15_Witness ==
    /\ last.kind = "message"
    /\ last.botID = ""
    /\ last.channelType = "channel"
    /\ last.text = <<"a">>
    /\ last.calls = 0
    /\ ~closed

\* C16: no task is created with a query that is empty once trimmed, and no
\* request body carries one.
C16_NoBlankQuery ==
    /\ \A t \in 1..(nextTask - 1) :
          Relays(closure[t]) => Ink(origin[t].query) # {}
    /\ \A w \in Workers :
          Running(w) => Ink(frame[w].reqBody.query) # {}

\* C17: what a running task sends to the backend is the user, the channel
\* and the query of its event as they were when the dispatcher was called,
\* and each of its sink calls goes to that channel.
C17_BoundAtDispatch ==
    \A w \in Workers :
       Running(w) =>
          /\ frame[w].reqBody = [user_id |-> origin[wtask[w]].user,
                                 query |-> origin[wtask[w]].query,
                                 channel_id |-> origin[wtask[w]].channel]
          /\ \A i \in 1..Len(Sinks(w)) :
                Sinks(w)[i][2] = origin[wtask[w]].channel

(***************************************************************************)
(* More claims about processTask.                                          *)
(***************************************************************************)

\* C18: whatever fails inside a task, the process goes on: it only ever
\* ends by a panic of a caller of Submit, never by one of a worker that is
\* running a task.
C18_FailureStaysInTask ==
    /\ \A w \in Workers : wpc[w] = "run" => frame[w].pc # "panic"
    /\ crashed => \E c \in Callers : cpc[c] = "panicked"

\* The sink's record of one task, and the texts in it.
TaskPosts(t) == SelectSeq(api.messages, LAMBDA m : m[1] = t)
PostTexts(t) == [k \in 1..Len(TaskPosts(t)) |-> TaskPosts(t)[k][3]]

\* The texts of the first n records of the stream of SpecOrder.
Streamed(n) == [k \in 1..n |-> <<IF k % 2 = 1 THEN "x" ELSE "y">>]

\* C19: a running task has made no sink call before its last backend
\* request returned; its texts are, in order, those of the message_part
\* records read so far (stream) or the first pieces of the document; and
\* whatever other tasks have sent in between, the sink's record restricted
\* to one task is that task's own sequence of texts, also once the task
\* has returned.
C19_SequentialInOrder ==
    /\ \A w \in Workers :
          Running(w) =>
             /\ \A i, j \in 1..Len(wlog[w]) :
                   IsSink(wlog[w][i]) /\ IsAttempt(wlog[w][j]) => j < i
             /\ PostTexts(wtask[w]) = SinkTexts(w)
             /\ frame[w].resp.ctype = "text/event-stream" =>
                   SinkTexts(w) = PartTexts(LinesRead(w))
             /\ SingleDoc(w) =>
                   IsPrefix(SinkTexts(w), Pieces(frame[w].resp.full))
    /\ \A t \in TaskIds :
          finished[t] = 1 =>
             \/ PostTexts(t) = Pieces(TwoSentences.full)
             \/ PostTexts(t) = Streamed(Len(PostTexts(t)))

C19_Witness ==
    /\ \A w \in Workers : Running(w) /\ frame[w].pc = "return"
    /\ \E i, j, k \in 1..Len(api.messages) :
          /\ i < j /\ j < k
          /\ api.messages[i][1] = api.messages[k][1]
          /\ api.messages[j][1] # api.messages[i][1]
    /\ \E t \in TaskIds : PostTexts(t) = Pieces(TwoSentences.full)
    /\ \E t \in TaskIds : PostTexts(t) = Streamed(3)

IsSleep(e) == e[1] = "sleep"
Waits(w) == [i \in 1..Len(SelectSeq(wlog[w], IsSleep)) |->
                SelectSeq(wlog[w], IsSleep)[i][2]]

\* C20: the waits a task starts are at most two, of 1 then 2 seconds, each
\* followed by a further attempt; a task all of whose three attempts failed
\* has waited exactly twice when it sends the fallback.
C20_TwoWaitsBetweenAttempts ==
    \A w \in Workers :
       Running(w) =>
          /\ IsPrefix(Waits(w), <<1, 2>>)
          /\ (fellback[w] = 1 /\ frame[w].pc = "return") => Waits(w) = <<1, 2>>

NoTerminal(ls) == \A i \in 1..Len(ls) : ~IsEnd(ls[i])

\* C21: on a streamed response in which no terminal record has been read, the
\* texts sent to the sink are exactly those of the well-formed message_part
\* records read so far, in order: a data record that does not decode and a
\* line without the data prefix add nothing and do not stop the scan; none of
\* the texts is the fallback, up to and including the task's return.
C21_MalformedDegradesGracefully ==
    \A w \in Workers :
        (/\ Running(w)
         /\ ~frame[w].err
         /\ frame[w].resp.ctype = "text/event-stream"
         /\ NoTerminal(LinesRead(w)))
            => /\ SinkTexts(w) = PartTexts(LinesRead(w))
               /\ \A i \in 1..Len(SinkTexts(w)) : SinkTexts(w)[i] # Fallback

C21_Witness ==
    \E w \in Workers :
        /\ Running(w)
        /\ ~cancelled
        /\ frame[w].pc = "return"
        /\ frame[w].resp.closes
        /\ LinesRead(w) = <<BadRecord, Part("x"), OtherLine>>
        /\ SinkTexts(w) = << <<"x">> >>

\* The media type a Content-Type header declares is what precedes its
\* parameters.
DeclaredStream(ct) ==
    ct \in {"text/event-stream", "text/event-stream; charset=utf-8"}

\* C22: once processTask has chosen how to read a response, it reads it as
\* line-delimited records exactly when the response is declared as an event
\* stream, and as a single document otherwise.
C22_ReadByDeclaredKind ==
    \A w \in Workers :
        (Running(w) /\ frame[w].mode # "none")
            => (DeclaredStream(frame[w].resp.ctype) <=> frame[w].mode = "lines")

IsCancel(e) == e[1] = "cancel"
IsUnread(e) == e[1] = "unread"
AfterCancel(w) ==
    {j \in 1..Len(wlog[w]) : \E i \in 1..(j - 1) : IsCancel(wlog[w][i])}

C23_DocumentWitness ==
    \E w \in Workers :
        /\ Running(w)
        /\ frame[w].pc = "return"
        /\ frame[w].decoded
        /\ SinkTexts(w) = << <<"A", ".">>, <<"B", ".">> >>
        /\ \E i \in 3..(Len(wlog[w]) - 1) :
              IsSink(wlog[w][i - 2]) /\ IsCancel(wlog[w][i]) /\ IsSink(wlog[w][i + 1])

IsPace(e) == e[1] = "pace"
Paces(w) == SelectSeq(wlog[w], IsPace)

\* C24: a task relaying a response makes one sink call per fragment (per
\* message_part record read, per non-empty trimmed chunk iterated), and every
\* such call is directly followed by one 500 ms delay, which nothing else
\* causes: between two consecutive sink calls of the task exactly one delay
\* has elapsed, on the streamed and on the single-document path.
C24_OneCallOnePause ==
    \A w \in Workers :
        (Running(w) /\ ~frame[w].err) =>
           /\ \A i \in 1..Len(wlog[w]) :
                 /\ IsSink(wlog[w][i]) =>
                       i < Len(wlog[w]) /\ IsPace(wlog[w][i + 1])
                 /\ IsPace(wlog[w][i]) => i > 1 /\ IsSink(wlog[w][i - 1])
           /\ frame[w].mode = "lines" =>
                 Len(Sinks(w)) = Len(SelectSeq(LinesRead(w), IsPart))
           /\ frame[w].decoded =>
                 /\ IsPrefix(SinkTexts(w), Pieces(frame[w].resp.full))
                 /\ frame[w].pc = "return" =>
                       Len(Sinks(w)) = Len(Pieces(frame[w].resp.full))

C24_Witness ==
    \E w \in Workers :
        /\ Running(w)
        /\ ~frame[w].err
        /\ frame[w].pc = "return"
        /\ frame[w].mode = "lines"
        /\ SinkTexts(w) = << <<"x">>, <<"y">> >>
        /\ Len(Paces(w)) = 2
        /\ \E i \in 1..(Len(wlog[w]) - 3) :
              /\ IsSink(wlog[w][i]) /\ IsPace(wlog[w][i + 1])
              /\ IsLine(wlog[w][i + 2]) /\ IsSink(wlog[w][i + 3])

C26_AcceptedStartsShutdownReturns ==
    /\ \A t \in TaskIds : (t \in submitted) ~> (runs[t] = 1)
    /\ (spc = "waiting") ~> (spc = "returned")
    /\ [](spc = "returned" =>
             /\ tasks = <<>>
             /\ active = 0
             /\ \A w \in 1..MaxPool : w \in Workers => wpc[w] = "exited")

Accepted(t) == t \in submitted
Taken(t) ==
    Accepted(t) /\ \A i \in 1..Len(tasks) : tasks[i] # t
Started(t) == runs[t] >= 1

\* C27 as claimed: of two tasks submitted one after the other, the later one
\* has not started unless the earlier one has; with one worker the later one
\* has not started unless the earlier one has finished.
C27_StartsInSubmissionOrder ==
    \A a, b \in TaskIds :
        (a < b /\ Accepted(a) /\ Accepted(b)) =>
           /\ Started(b) => Started(a)
           /\ maxWorkers = 1 => (Started(b) => finished[a] = 1)

\* C27 amended: of two tasks submitted one after the other, the later one
\* has not left the queue unless the earlier one has (a worker that has
\* received a task may still be about to call it); with one worker the
\* later one has not started unless the earlier one has finished.
C27_LeavesQueueInSubmissionOrder ==
    \A a, b \in TaskIds :
        (a < b /\ Accepted(a) /\ Accepted(b)) =>
           /\ Taken(b) => Taken(a)
           /\ maxWorkers = 1 => (Started(b) => finished[a] = 1)

C27_Witness ==
    /\ maxWorkers = 2
    /\ Started(2) /\ ~Started(1)
    /\ Taken(1) /\ Taken(2)
    /\ \E w \in Workers : wpc[w] = "taken" /\ wtask[w] = 1

C27_OneWorkerWitness ==
    /\ maxWorkers = 1
    /\ finished[1] = 1 /\ finished[2] = 1
    /\ Started(3) /\ finished[3] = 0
    /\ tasks = <<4, 5>>

EndRead(w) == \E i \in 1..Len(LinesRead(w)) : IsEnd(LinesRead(w)[i])

\* C28: a task that has read the terminal record of a stream eventually
\* returns to its worker, whether or not the backend closes the transport,
\* and a Shutdown that has closed the queue eventually returns (unless the
\* process has crashed on a Submit that met the closed queue, C4).
C28_TerminalRecordReleasesWorker ==
    /\ (Running(1) /\ EndRead(1)) ~> (~Running(1) \/ crashed)
    /\ (spc = "waiting") ~> (spc = "returned" \/ crashed)

CancelledCall(w) ==
    \E i \in 1..Len(Attempts(w)) : Attempts(w)[i][2] = "ctx"

\* C29: a task one of whose backend calls ended because the context was
\* cancelled makes no sink call at all; the fallback text is sent only by a
\* task all of whose attempts ended in a connection failure.
C29_NoOutputAfterCancelledCall ==
    \A w \in Workers :
        Running(w) =>
           /\ CancelledCall(w) => Sinks(w) = <<>>
           /\ (\E i \in 1..Len(SinkTexts(w)) : SinkTexts(w)[i] = Fallback)
                 => \A i \in 1..Len(Attempts(w)) : Attempts(w)[i][2] = "fail"

\* C30: whatever callers do while Shutdown runs, no send meets the closed
\* queue with a panic and the process lives on: a caller parked on the full
\* queue when it is closed is not woken with a panic, and once Shutdown has
\* returned every task whose Submit returned has run to its end.
C30_ShutdownSafeAgainstIntake ==
    /\ closed => /\ ~crashed
                 /\ \A c \in Callers : cpc[c] # "panicked"
    /\ spc = "returned" => \A t \in submitted : finished[t] = 1

====
